---- MODULE Spec2Model ----
(***************************************************************************)
(* Model of the animal CRUD service (app/api/routes/animals.py) over the  *)
(* "animals" table (app/api/models/animal.py), seeded by init_db.         *)
(*                                                                         *)
(* Spec      : requests handled one at a time, each handler run whole.     *)
(* SpecConc  : several requests in flight, each in its own session, their  *)
(*             handlers interleaved at the granularity of the statements   *)
(*             they send to the store.                                     *)
(***************************************************************************)
EXTENDS Integers, Sequences, FiniteSets, TLC

VARIABLES
    animals,    \* committed rows of table "animals"
    last,       \* Spec: the last request handled and its response
    before,     \* Spec: the rows of "animals" when that request arrived
    gone,       \* Spec: ids deleted with a 204 and no row inserted since
    reqs        \* SpecConc: per worker, the request in flight and its session

vars == <<animals, last, before, gone, reqs>>

-----------------------------------------------------------------------------
(* Bounds of the model *)

\* create requests are issued while the table holds fewer rows than this
MaxAnimals == 7

\* number of requests in flight at once in SpecConc
MaxInFlight == 2

-----------------------------------------------------------------------------
(* Enumerations *)

\* app.enums.enum_race.Race, in definition order: member name, value stored
\* in column race, and human-readable label
Race ==
    << [name |-> "CHICKEN", value |-> "chicken", label |-> "Poule"],
       [name |-> "COW",     value |-> "cow",     label |-> "Vache"],
       [name |-> "CAT",     value |-> "cat",     label |-> "Chat"],
       [name |-> "DOG",     value |-> "dog",     label |-> "Chien"] >>

\* app.enums.enum_status.Status values
Status == {1, 0}

\* str.lower() on the strings that occur in the model; every other string
\* of the model is already lower case
Lower(s) ==
    CASE s = "CHICKEN" -> "chicken"
      [] s = "COW"     -> "cow"
      [] s = "CAT"     -> "cat"
      [] s = "DOG"     -> "dog"
      [] s = "Poule"   -> "poule"
      [] s = "POULE"   -> "poule"
      [] s = "Vache"   -> "vache"
      [] s = "Chat"    -> "chat"
      [] s = "Chien"   -> "chien"
      [] s = "Dog"     -> "dog"
      [] s = "Licorne" -> "licorne"
      [] OTHER         -> s

\* datetime.now().year, evaluated when the schemas are declared
CurrentYear == 2026

\* max_length of name
MaxNameLen == 200

\* ge bound of birth_date
MinBirthDate == 1000

-----------------------------------------------------------------------------
(* Optional values: <<>> is None / null, <<v>> is the value v *)

None == <<>>
Some(v) == <<v>>
Val(o) == o[1]

-----------------------------------------------------------------------------
(* The table *)

\* the rows init_db inserts into the emptied table; ids are assigned by the
\* store in insertion order, created_at is abstracted to its year
SeedRows ==
    { [id |-> 1, name |-> "Obi-Wan Henobi",     race |-> "chicken", status |-> 1,
       birth_date |-> 2003, created_at |-> 2003],
      [id |-> 2, name |-> "Hen-credible Ladies", race |-> "chicken", status |-> 1,
       birth_date |-> 2004, created_at |-> 2004],
      [id |-> 3, name |-> "Hen-kerchief",        race |-> "chicken", status |-> 0,
       birth_date |-> 1998, created_at |-> 1998],
      [id |-> 4, name |-> "Moo-gnificent",       race |-> "cow",     status |-> 1,
       birth_date |-> 1975, created_at |-> 1975],
      [id |-> 5, name |-> "Moo-tiful",           race |-> "cow",     status |-> 1,
       birth_date |-> 1975, created_at |-> 1975],
      [id |-> 6, name |-> "Cat-a-tonic",         race |-> "cat",     status |-> 1,
       birth_date |-> 2012, created_at |-> 2012] }

Ids(db) == {a.id : a \in db}

\* Query.first(): the matching row the table scan meets first (lowest rowid),
\* as a set of at most one row
First(rows) ==
    IF rows = {} THEN {}
    ELSE {CHOOSE a \in rows : \A b \in rows : a.id <= b.id}

\* db.query(AnimalModel).filter(AnimalModel.id == animal_id).first()
find_animal_by_id(db, animal_id) == First({a \in db : a.id = animal_id})

\* a lookup that finds nothing
find_animal_by_name_none(db, name) == {}

\* db.query(AnimalModel).filter(AnimalModel.name == name).first(); a null
\* name compiles to "name IS NULL", which no row satisfies
find_animal_by_name(db, name) ==
    IF name = None THEN {} ELSE First({a \in db : a.name = Val(name)})

\* an id counted from the number of rows instead of given by the store
NextId_by_count(db) == Cardinality(db) + 1

\* the integer primary key the store gives an inserted row: one more than
\* the largest id in the table
NextId(db) ==
    IF db = {} THEN 1 ELSE 1 + (CHOOSE m \in Ids(db) : \A i \in Ids(db) : i <= m)

-----------------------------------------------------------------------------
(* Request validation and race lookup *)

\* the loop "for r in Race: if r.value.lower() == s.lower() or r.name.lower()
\* == s.lower() [or r.label.lower() == s.lower()]: race_enum = r; break",
\* as a set of at most one member
match_race(s, withLabel) ==
    LET hit(i) == \/ Lower(Race[i].value) = Lower(s)
                  \/ Lower(Race[i].name) = Lower(s)
                  \/ withLabel /\ Lower(Race[i].label) = Lower(s)
        idx == {i \in DOMAIN Race : hit(i)}
    IN  IF idx = {} THEN {}
        ELSE {Race[CHOOSE i \in idx : \A j \in idx : i <= j]}

\* Field constraints of AnimalBase, on a value that is present and not null
ValidName(v) == Len(v) >= 1 /\ Len(v) <= MaxNameLen
ValidRace(v) == \E i \in DOMAIN Race : Race[i].value = v
ValidStatus(v) == v \in Status
ValidBirthDate(v) == v >= MinBirthDate /\ v <= CurrentYear

\* AnimalCreate: the four fields are required
AnimalCreateValid(body) ==
    /\ ValidName(body.name)
    /\ ValidRace(body.race)
    /\ ValidStatus(body.status)
    /\ ValidBirthDate(body.birth_date)

\* AnimalUpdate: every field optional, null allowed, constraints apply to
\* the values given
AnimalUpdateValid(data) ==
    /\ "name" \in DOMAIN data /\ data.name # None => ValidName(Val(data.name))
    /\ "race" \in DOMAIN data /\ data.race # None => ValidRace(Val(data.race))
    /\ "status" \in DOMAIN data /\ data.status # None => ValidStatus(Val(data.status))
    /\ "birth_date" \in DOMAIN data /\ data.birth_date # None
           => ValidBirthDate(Val(data.birth_date))

-----------------------------------------------------------------------------
(* Writes to the store *)

\* db.add(db_animal); db.commit(): INSERT of one row, the id given by the store
insert_animal(db, name, race, status, birth_date, now) ==
    db \cup { [id |-> NextId(db), name |-> name, race |-> race, status |-> status,
               birth_date |-> birth_date, created_at |-> now] }

\* the attributes of the loaded object that setattr changed
Dirty(animal, data) == {k \in DOMAIN data : data[k] # Some(animal[k])}

\* the same with a column created_at that is also set on every UPDATE
commit_update_touch(db, animal, data) ==
    LET dirty == Dirty(animal, data)
        rows  == {a \in db : a.id = animal.id}
        set(a) == [f \in DOMAIN a |-> IF f \in dirty THEN Val(data[f])
                                      ELSE IF f = "created_at" THEN CurrentYear
                                      ELSE a[f]]
    IN  IF dirty = {} THEN [exc |-> "", db |-> db]
        ELSE IF rows = {} THEN [exc |-> "StaleDataError", db |-> db]
        ELSE IF \E k \in dirty : data[k] = None
             THEN [exc |-> "IntegrityError", db |-> db]
        ELSE [exc |-> "", db |-> (db \ rows) \cup {set(a) : a \in rows}]

\* the same on columns declared without nullable=False: the UPDATE stores
\* the nulls, and the row has no value in those columns
commit_update_nullable(db, animal, data) ==
    LET dirty == Dirty(animal, data)
        rows  == {a \in db : a.id = animal.id}
        nulls == {k \in dirty : data[k] = None}
        set(a) == [f \in DOMAIN a \ nulls |->
                      IF f \in dirty THEN Val(data[f]) ELSE a[f]]
    IN  IF dirty = {} THEN [exc |-> "", db |-> db]
        ELSE IF rows = {} THEN [exc |-> "StaleDataError", db |-> db]
        ELSE [exc |-> "", db |-> (db \ rows) \cup {set(a) : a \in rows}]

\* "for key, value in update_data.items(): setattr(animal, key, value)" then
\* db.commit(): one UPDATE of the changed columns of the row with the object's
\* id. Yields the outcome and the table after it.
commit_update(db, animal, data) ==
    LET dirty == Dirty(animal, data)
        rows  == {a \in db : a.id = animal.id}
        set(a) == [f \in DOMAIN a |-> IF f \in dirty THEN Val(data[f]) ELSE a[f]]
    IN  IF dirty = {} THEN [exc |-> "", db |-> db]
        ELSE IF rows = {} THEN [exc |-> "StaleDataError", db |-> db]
        ELSE IF \E k \in dirty : data[k] = None
             THEN [exc |-> "IntegrityError", db |-> db]
        ELSE [exc |-> "", db |-> (db \ rows) \cup {set(a) : a \in rows}]

\* db.delete(animal) without the commit: the session closes, nothing is deleted
commit_delete_lost(db, animal) == db

\* db.delete(animal); db.commit(): DELETE of the row with the object's id
commit_delete(db, animal) == {a \in db : a.id # animal.id}

-----------------------------------------------------------------------------
(* Responses *)

Response(code, exc, out) == [code |-> code, exc |-> exc, out |-> out]

\* raise HTTPException(status_code=code)
HTTPError(code) == Response(code, "HTTPException", {})

\* any other exception leaves the handler and is answered with a 500
Unhandled(exc) == Response(500, exc, {})

\* request body rejected by the schema before the handler runs
Unprocessable == Response(422, "RequestValidationError", {})

-----------------------------------------------------------------------------
(* Handlers, run whole: the response and the table after the request *)

Result(resp, db) == [resp |-> resp, db |-> db]

\* "if status: ..." instead of "if status is not None: ..."
filter_by_status_truthy(db, status) ==
    IF status # None /\ Val(status) # 0 THEN {a \in db : a.status = Val(status)} ELSE db

\* "if status is not None: query = query.filter(AnimalModel.status == status)"
filter_by_status(db, status) ==
    IF status # None THEN {a \in db : a.status = Val(status)} ELSE db

\* GET /animals/ : status is None or Some(int), race is None or Some(str)
get_all_animals(db, status, race) ==
    LET byStatus == filter_by_status(db, status)
        filtered == race # None /\ Val(race) # ""
        race_enum == IF filtered THEN match_race(Val(race), TRUE) ELSE {}
    IN  IF filtered /\ race_enum = {}
        THEN \* "status.HTTP_400_BAD_REQUEST" reads the query parameter status,
             \* None or an int, which has no such attribute
             Result(Unhandled("AttributeError"), db)
        ELSE IF filtered
        THEN Result(Response(200, "",
                 {a \in byStatus : \E r \in race_enum : a.race = r.value}), db)
        ELSE Result(Response(200, "", byStatus), db)

\* the not-found branch missing: the empty lookup is returned as it is
get_animal_unchecked(db, animal_id) ==
    Result(Response(200, "", find_animal_by_id(db, animal_id)), db)

\* GET /animals/{animal_id}
get_animal(db, animal_id) ==
    LET animal == find_animal_by_id(db, animal_id)
    IN  IF animal = {} THEN Result(HTTPError(404), db)
        ELSE Result(Response(200, "", animal), db)

\* POST /animals/
create_animal(db, body, now) ==
    LET existing_animal == find_animal_by_name(db, Some(body.name))
        race_enum == match_race(body.race, FALSE)
    IN  IF ~AnimalCreateValid(body) THEN Result(Unprocessable, db)
        ELSE IF existing_animal # {} THEN Result(HTTPError(400), db)
        ELSE IF race_enum = {} THEN Result(HTTPError(400), db)
        ELSE LET r == CHOOSE r \in race_enum : TRUE
                 db2 == insert_animal(db, body.name, r.value, body.status,
                                      body.birth_date, now)
             IN  Result(Response(201, "", db2 \ db), db2)

\* "existing_animal" alone, without "and existing_animal.id != animal_id"
name_taken_by_any(existing_animal, animal_id) == existing_animal # {}

\* "if existing_animal and existing_animal.id != animal_id"
name_taken(existing_animal, animal_id) ==
    \E e \in existing_animal : e.id # animal_id

\* update_data after the race and status members are replaced by their values
update_values(data) ==
    [k \in DOMAIN data |->
        IF k = "race" /\ data[k] # None
        THEN LET r == CHOOSE r \in match_race(Val(data[k]), FALSE) : TRUE
             IN  Some(r.value)
        ELSE data[k]]

\* PUT /animals/{animal_id}
update_animal(db, animal_id, data) ==
    LET animal == find_animal_by_id(db, animal_id)
        existing_animal == IF "name" \in DOMAIN data
                           THEN find_animal_by_name(db, data.name) ELSE {}
        badRace == /\ "race" \in DOMAIN data
                   /\ data.race # None
                   /\ match_race(Val(data.race), FALSE) = {}
    IN  IF ~AnimalUpdateValid(data) THEN Result(Unprocessable, db)
        ELSE IF animal = {} THEN Result(HTTPError(404), db)
        ELSE IF name_taken(existing_animal, animal_id)
             THEN Result(HTTPError(400), db)
        ELSE IF badRace THEN Result(HTTPError(400), db)
        ELSE LET done == commit_update(db, CHOOSE a \in animal : TRUE,
                                       update_values(data))
             IN  IF done.exc # "" THEN Result(Unhandled(done.exc), db)
                 ELSE Result(Response(200, "",
                                 find_animal_by_id(done.db, animal_id)), done.db)

\* DELETE /animals/{animal_id}
delete_animal(db, animal_id) ==
    LET animal == find_animal_by_id(db, animal_id)
    IN  IF animal = {} THEN Result(HTTPError(404), db)
        ELSE Result(Response(204, "", {}),
                    commit_delete(db, CHOOSE a \in animal : TRUE))

-----------------------------------------------------------------------------
(* Requests the clients send *)

\* the id the seed gives its first row, the id of the first row created
\* after the seed, and an id no row ever has
IdInputs == {1, 7, 999}

NameInputs == {"Obi-Wan Henobi", "Moo-tiful", "New Animal"}

\* values datetime.now() returns while the service runs
NowInputs == {2026}

\* a name of 201 characters, one more than max_length
LongName ==
    "01234567890123456789012345678901234567890123456789012345678901234567890123456789012345678901234567890123456789012345678901234567890123456789012345678901234567890123456789012345678901234567890123456789x"

CreateBodies ==
    [name : {"Obi-Wan Henobi", "New Animal"}, race : {"chicken", "dog"},
     status : Status, birth_date : {2022}]
    \cup { [name |-> "", race |-> "dog", status |-> 1, birth_date |-> 2022],
           [name |-> "New Animal", race |-> "Poule", status |-> 1, birth_date |-> 2022],
           [name |-> "New Animal", race |-> "dog", status |-> 2, birth_date |-> 2022],
           [name |-> "New Animal", race |-> "dog", status |-> 1, birth_date |-> 999],
           [name |-> "New Animal", race |-> "dog", status |-> 1,
            birth_date |-> CurrentYear + 1],
           [name |-> LongName, race |-> "dog", status |-> 1, birth_date |-> 2022] }

Restrict(f, D) == [k \in D |-> f[k]]

\* JSON bodies of PUT: any subset of the fields, each null or a value
UpdateBodies ==
    { Restrict(full, D) :
        full \in [name : {None} \cup {Some(n) : n \in NameInputs},
                  race : {None, Some("dog")},
                  status : {None, Some(0)},
                  birth_date : {None, Some(2022)}],
        D \in SUBSET {"name", "race", "status", "birth_date"} }
    \cup { [name |-> Some("")], [birth_date |-> Some(999)],
           [name |-> Some(LongName)], [birth_date |-> Some(CurrentYear + 1)],
           [status |-> Some(2)], [race |-> Some("Poule")] }

StatusFilters == {None, Some(0), Some(1)}

RaceFilters ==
    {None, Some(""), Some("Poule"), Some("POULE"), Some("chicken"), Some("CHICKEN"),
     Some("Dog"), Some("Licorne")}

-----------------------------------------------------------------------------------------------------------------------------------------------------
(* Sessions *)

\* SessionLocal(): a new session, open, with nothing pending
SessionLocal == [open |-> TRUE, pending |-> <<>>]

NoSession == [open |-> FALSE, pending |-> <<>>]

\* the changes a commit could not write stay pending in the session
with_pending(session, data) == [session EXCEPT !.pending = data]

\* db.close(): what is pending is dropped, the connection is released
close(session) == [open |-> FALSE, pending |-> <<>>]

\* "yield db; db.close()" without try/finally: an exception raised by the
\* handler leaves the generator at the yield and the close is skipped
get_db_exit_no_finally(session, raised) ==
    IF raised THEN session ELSE close(session)

\* get_db after its yield: "finally: db.close()", whether the handler
\* returned or raised
get_db_exit(session, raised) == close(session)


\* the workers that run requests side by side in SpecConc
Workers == 1..MaxInFlight

NoResponse == Response(0, "", {})

\* a worker with no request
Idle == [pc |-> "idle", op |-> "none", arg |-> <<>>, session |-> NoSession,
         animal |-> {}, resp |-> NoResponse]

-----------------------------------------------------------------------------
(* Requests handled one at a time: the server takes a request when it is   *)
(* ready, runs its handler whole, and is ready again once the response is  *)
(* sent.                                                                   *)

NoRequest == [op |-> "none", arg |-> <<>>, resp |-> NoResponse]

Init ==
    /\ animals = SeedRows
    /\ last = NoRequest
    /\ before = [animals |-> SeedRows, gone |-> {}]
    /\ gone = {}
    /\ reqs = [w \in Workers |-> Idle]

Ready == last.op = "none"

Handled(op, arg, res) ==
    /\ Ready
    /\ last' = [op |-> op, arg |-> arg, resp |-> res.resp]
    /\ before' = [animals |-> animals, gone |-> gone]
    /\ animals' = res.db
    /\ UNCHANGED reqs

List ==
    \E status \in StatusFilters, race \in RaceFilters :
        /\ Handled("list", [status |-> status, race |-> race],
                   get_all_animals(animals, status, race))
        /\ UNCHANGED gone

Get ==
    \E animal_id \in IdInputs :
        /\ Handled("get", [id |-> animal_id], get_animal(animals, animal_id))
        /\ UNCHANGED gone

Create ==
    \E body \in CreateBodies, now \in NowInputs :
        /\ Cardinality(animals) < MaxAnimals
        /\ Handled("create", [body |-> body, now |-> now],
                   create_animal(animals, body, now))
        /\ gone' = IF animals' # animals THEN {} ELSE gone

Update ==
    \E animal_id \in IdInputs, data \in UpdateBodies :
        /\ Handled("update", [id |-> animal_id, data |-> data],
                   update_animal(animals, animal_id, data))
        /\ UNCHANGED gone

Delete ==
    \E animal_id \in IdInputs :
        /\ Handled("delete", [id |-> animal_id], delete_animal(animals, animal_id))
        /\ gone' = IF last'.resp.code = 204 THEN gone \cup {animal_id} ELSE gone

\* the response is sent and the server is ready for the next request
Respond ==
    /\ ~Ready
    /\ last' = NoRequest
    /\ UNCHANGED <<animals, before, gone, reqs>>

Next == List \/ Get \/ Create \/ Update \/ Delete \/ Respond

Spec == Init /\ [][Next]_vars

-----------------------------------------------------------------------------------------------------------------------------------------------------
(* Requests in flight together: every worker runs one request at a time in *)
(* a session of its own; a step of a worker is one statement sent to the   *)
(* store, with the handler code around it.                                 *)

\* the requests sent while others are in flight
ConcRequests ==
    { [op |-> "create", arg |-> [body |-> [name |-> "New Animal", race |-> "chicken",
                                            status |-> 1, birth_date |-> 2022]]],
      [op |-> "update", arg |-> [id |-> 1, data |-> [name |-> Some("New Animal")]]],
      [op |-> "update", arg |-> [id |-> 1, data |-> [status |-> None]]],
      [op |-> "delete", arg |-> [id |-> 1]],
      [op |-> "delete", arg |-> [id |-> 7]],
      [op |-> "get",    arg |-> [id |-> 1]],
      [op |-> "list",   arg |-> [status |-> None, race |-> Some("Licorne")]] }

InFlight(op) == {w \in Workers : reqs[w].pc # "idle" /\ reqs[w].op = op}

\* the worker takes a request: get_db opens its session, then the handler starts
Start(w) ==
    \E r \in ConcRequests :
        /\ reqs[w].pc = "idle"
        /\ r.op = "create"
               => Cardinality(animals) + Cardinality(InFlight("create")) < MaxAnimals
        /\ reqs' = [reqs EXCEPT ![w] =
                       [pc |-> IF r.op \in {"list", "get"} THEN "query"
                               ELSE IF r.op = "create" THEN "check" ELSE "load",
                        op |-> r.op, arg |-> r.arg, session |-> SessionLocal,
                        animal |-> {}, resp |-> NoResponse]]
        /\ UNCHANGED <<animals, last, before, gone>>

\* the handler ends with this response: get_db resumes after its yield
Leave(w, resp) == [reqs[w] EXCEPT !.pc = "exit", !.resp = resp]

Goto(w, pc) == [reqs[w] EXCEPT !.pc = pc]

\* get_all_animals and get_animal: one query
Query(w) ==
    /\ reqs[w].pc = "query"
    /\ LET res == IF reqs[w].op = "list"
                  THEN get_all_animals(animals, reqs[w].arg.status, reqs[w].arg.race)
                  ELSE get_animal(animals, reqs[w].arg.id)
       IN  reqs' = [reqs EXCEPT ![w] = Leave(w, res.resp)]
    /\ UNCHANGED <<animals, last, before, gone>>

\* update_animal and delete_animal: the lookup of the row by id
Load(w) ==
    /\ reqs[w].pc = "load"
    /\ LET animal == find_animal_by_id(animals, reqs[w].arg.id)
       IN  reqs' = [reqs EXCEPT ![w] =
               IF animal = {} THEN Leave(w, HTTPError(404))
               ELSE [reqs[w] EXCEPT
                        !.animal = animal,
                        !.pc = IF reqs[w].op = "update" /\ "name" \in DOMAIN reqs[w].arg.data
                               THEN "check" ELSE "commit"]]
    /\ UNCHANGED <<animals, last, before, gone>>

\* create_animal and update_animal: the lookup of the name
Check(w) ==
    /\ reqs[w].pc = "check"
    /\ LET name == IF reqs[w].op = "create" THEN Some(reqs[w].arg.body.name)
                   ELSE reqs[w].arg.data.name
           existing_animal == find_animal_by_name(animals, name)
           taken == IF reqs[w].op = "create" THEN existing_animal # {}
                    ELSE name_taken(existing_animal, reqs[w].arg.id)
       IN  reqs' = [reqs EXCEPT ![w] =
               IF taken THEN Leave(w, HTTPError(400)) ELSE Goto(w, "commit")]
    /\ UNCHANGED <<animals, last, before, gone>>

\* create_animal: db.add(db_animal); db.commit()
CommitCreate(w) ==
    /\ reqs[w].pc = "commit" /\ reqs[w].op = "create"
    /\ \E now \in NowInputs :
         LET body == reqs[w].arg.body
             r == CHOOSE r \in match_race(body.race, FALSE) : TRUE
         IN  /\ animals' = insert_animal(animals, body.name, r.value, body.status,
                                         body.birth_date, now)
             /\ reqs' = [reqs EXCEPT ![w] =
                            [reqs[w] EXCEPT !.pc = "refresh", !.animal = animals' \ animals]]
    /\ UNCHANGED <<last, before, gone>>

\* update_animal: the setattr loop and db.commit()
CommitUpdate(w) ==
    /\ reqs[w].pc = "commit" /\ reqs[w].op = "update"
    /\ LET data == update_values(reqs[w].arg.data)
           done == commit_update(animals, CHOOSE a \in reqs[w].animal : TRUE, data)
       IN  /\ animals' = done.db
           /\ reqs' = [reqs EXCEPT ![w] =
                  IF done.exc # ""
                  THEN [reqs[w] EXCEPT !.pc = "exit", !.resp = Unhandled(done.exc),
                                       !.session = with_pending(reqs[w].session, data)]
                  ELSE Goto(w, "refresh")]
    /\ UNCHANGED <<last, before, gone>>

\* delete_animal: db.delete(animal); db.commit()
CommitDelete(w) ==
    /\ reqs[w].pc = "commit" /\ reqs[w].op = "delete"
    /\ animals' = commit_delete(animals, CHOOSE a \in reqs[w].animal : TRUE)
    /\ reqs' = [reqs EXCEPT ![w] = Leave(w, Response(204, "", {}))]
    /\ UNCHANGED <<last, before, gone>>

\* create_animal and update_animal: db.refresh(...) reads the row back
Refresh(w) ==
    /\ reqs[w].pc = "refresh"
    /\ LET id == (CHOOSE a \in reqs[w].animal : TRUE).id
           row == find_animal_by_id(animals, id)
       IN  reqs' = [reqs EXCEPT ![w] =
               IF row = {} THEN Leave(w, Unhandled("InvalidRequestError"))
               ELSE Leave(w, Response(IF reqs[w].op = "create" THEN 201 ELSE 200,
                                      "", row))]
    /\ UNCHANGED <<animals, last, before, gone>>

Raised(resp) == resp.exc # ""

\* the handler has returned or raised: get_db runs to its end
Exit(w) ==
    /\ reqs[w].pc = "exit"
    /\ reqs' = [reqs EXCEPT ![w] =
                   [reqs[w] EXCEPT
                       !.pc = "done",
                       !.session = get_db_exit(reqs[w].session, Raised(reqs[w].resp))]]
    /\ UNCHANGED <<animals, last, before, gone>>

\* the response is sent and the worker is free again
Recycle(w) ==
    /\ reqs[w].pc = "done"
    /\ reqs' = [reqs EXCEPT ![w] = Idle]
    /\ UNCHANGED <<animals, last, before, gone>>

NextConc ==
    \E w \in Workers :
        \/ Start(w)
        \/ Query(w)
        \/ Load(w)
        \/ Check(w)
        \/ CommitCreate(w)
        \/ CommitUpdate(w)
        \/ CommitDelete(w)
        \/ Refresh(w)
        \/ Exit(w)
        \/ Recycle(w)

SpecConc == Init /\ [][NextConc]_vars

-----
(* Properties of the requests handled one at a time (Spec) *)

Code == last.resp.code
Out == last.resp.out

\* C1. Name uniqueness: in every state reached from the seeded table by
\* create, update and delete requests handled one at a time, no two rows
\* with different ids have the same name.
C1_NameUnique ==
    \A a, b \in animals : a.id # b.id => a.name # b.name

\* a row created after the seed holds the name the seed gave to row 1, and
\* an update has just succeeded
C1_Witness ==
    /\ last.op = "update" /\ Code = 200
    /\ \E a \in animals : a.id = 7 /\ a.name = "Obi-Wan Henobi"
    /\ \E a \in animals : a.id = 1

\* C2. A create request (with a body the schema accepts) whose name is the
\* name of a row of the table is answered 400 and leaves the table as it was.
C2_DuplicateCreateRejected ==
    ( /\ last.op = "create"
      /\ AnimalCreateValid(last.arg.body)
      /\ \E a \in before.animals : a.name = last.arg.body.name )
    => Code = 400 /\ animals = before.animals

\* a create with the name of a row created earlier was answered 400
C2_Witness ==
    /\ last.op = "create" /\ Code = 400
    /\ \E a \in before.animals : a.id = 7 /\ a.name = last.arg.body.name

\* C3. An update (with a body the schema accepts) of an existing id that
\* supplies a name is answered 400 exactly when a row with another id holds
\* that name; then the table is left as it was; the row's own current name
\* is not rejected.
C3_RenameCollision ==
    ( /\ last.op = "update"
      /\ AnimalUpdateValid(last.arg.data)
      /\ last.arg.id \in Ids(before.animals)
      /\ "name" \in DOMAIN last.arg.data )
    => /\ Code = 400 <=> \E a \in before.animals :
                             a.id # last.arg.id /\ Some(a.name) = last.arg.data.name
       /\ Code = 400 => animals = before.animals
       /\ \A a \in before.animals :
              a.id = last.arg.id /\ Some(a.name) = last.arg.data.name
                  => Code # 400

\* an update that supplied the row's own current name, with another field,
\* was answered 200
C3_Witness ==
    /\ last.op = "update" /\ Code = 200
    /\ DOMAIN last.arg.data = {"name", "status"}
    /\ \E a \in before.animals :
           a.id = last.arg.id /\ Some(a.name) = last.arg.data.name

\* a rename to the name of another row was answered 400
C3_WitnessRejected ==
    /\ last.op = "update" /\ Code = 400
    /\ \E a \in before.animals :
           a.id # last.arg.id /\ Some(a.name) = last.arg.data.name

\* C4. For an id that no row of the table has, get-by-id, update (with a body
\* the schema accepts) and delete are each answered 404 and leave the table
\* as it was.
C4_MissingIdNotFound ==
    ( /\ last.op \in {"get", "update", "delete"}
      /\ last.arg.id \notin Ids(before.animals)
      /\ last.op = "update" => AnimalUpdateValid(last.arg.data) )
    => Code = 404 /\ animals = before.animals

\* an update that supplies fields was sent for an id that is not stored
C4_Witness ==
    /\ last.op = "update" /\ Code = 404
    /\ last.arg.id \notin Ids(before.animals)
    /\ DOMAIN last.arg.data = {"name", "race"}

\* C5. A delete answered 204 removes the row with that id and no other row;
\* while no row has been created since, the id stays absent and a get or a
\* second delete of it is answered 404.
C5_DeleteRemoves ==
    /\ ( last.op = "delete" /\ Code = 204 )
       => /\ last.arg.id \in Ids(before.animals)
          /\ animals = {a \in before.animals : a.id # last.arg.id}
    /\ \A i \in gone : i \notin Ids(animals)
    /\ ( last.op \in {"get", "delete"} /\ last.arg.id \in before.gone )
       => Code = 404

\* a second delete of an id deleted before, with no create in between
C5_Witness ==
    /\ last.op = "delete" /\ Code = 404
    /\ last.arg.id \in before.gone

\* C6. A list request whose race filter matches no race (by value, name or
\* label, whatever the case) is answered 400, whatever the status filter, and
\* leaves the table as it was.
RaceMatches(s) ==
    {i \in DOMAIN Race :
        Lower(s) \in {Lower(Race[i].value), Lower(Race[i].name), Lower(Race[i].label)}}

C6_UnknownRaceFilter400 ==
    ( /\ last.op = "list"
      /\ last.arg.race # None
      /\ RaceMatches(Val(last.arg.race)) = {} )
    => Code = 400 /\ animals = before.animals

\* C7. A list request with no race filter or a race filter that matches a
\* race is answered 200 with exactly the rows of the table that have the
\* status asked for (when a status is given) and the matched race (when a
\* race is given).
C7_ListExact ==
    ( /\ last.op = "list"
      /\ last.arg.race = None \/ RaceMatches(Val(last.arg.race)) # {} )
    => /\ Code = 200
       /\ Out = {a \in before.animals :
                   /\ last.arg.status # None => a.status = Val(last.arg.status)
                   /\ last.arg.race # None =>
                        \E i \in RaceMatches(Val(last.arg.race)) :
                            a.race = Race[i].value}

\* both filters given, the race by its label in another case, the status 0,
\* and some row but not every row is returned
C7_Witness ==
    /\ last.op = "list" /\ Code = 200
    /\ last.arg.status = Some(0) /\ last.arg.race = Some("POULE")
    /\ Out # {} /\ Out # before.animals

\* C8. An update answered 200 leaves the id and created_at of its row, and
\* every field its body does not supply, as they were, and leaves every
\* other row as it was; no update, whatever its answer, changes the id or
\* created_at of any row.
C8_UpdateFrame ==
    /\ ( last.op = "update" /\ Code = 200 )
       => \E old \in before.animals, new \in animals :
             /\ old.id = last.arg.id /\ new.id = last.arg.id
             /\ new.created_at = old.created_at
             /\ \A f \in {"name", "race", "status", "birth_date"} \ DOMAIN last.arg.data :
                    new[f] = old[f]
             /\ animals \ {new} = before.animals \ {old}
    /\ last.op = "update"
       => {<<a.id, a.created_at>> : a \in animals}
            = {<<a.id, a.created_at>> : a \in before.animals}

\* an update of two fields changed the row and left its other fields
C8_Witness ==
    /\ last.op = "update" /\ Code = 200
    /\ DOMAIN last.arg.data = {"name", "race"}
    /\ animals # before.animals

-----------------------------------------------------------------------------
(* Properties of the requests in flight together (SpecConc) *)

\* C9. With requests handled side by side, each in its own session, the name
\* check of a create or a rename and its write are not separated by another
\* request's write, so of two requests for one name at most one succeeds and
\* no name is ever held by two rows.
C9_NamesStayUnique ==
    Cardinality({a.name : a \in animals}) = Cardinality(animals)

\* C10. Every request runs in a session opened for it, and the session is
\* closed, with nothing left pending, once the request has ended, whether
\* the handler returned, raised an HTTP error or raised another exception;
\* a step on which a handler ends in an error writes nothing to the table.
C10_SessionState ==
    \A w \in Workers :
        /\ reqs[w].pc \in {"query", "load", "check", "commit", "refresh", "exit"}
               => reqs[w].session.open
        /\ reqs[w].pc \in {"query", "load", "check", "commit", "refresh"}
               => reqs[w].session.pending = <<>>
        /\ reqs[w].pc \in {"done", "idle"}
               => ~reqs[w].session.open /\ reqs[w].session.pending = <<>>

C10_FailedStep ==
    \A w \in Workers :
        /\ ( /\ reqs[w].pc \notin {"idle", "exit", "done"}
             /\ reqs'[w].pc = "exit"
             /\ reqs'[w].resp.code >= 400 )
           => animals' = animals
        /\ ( reqs[w].pc = "idle" /\ reqs'[w].pc # "idle" )
           => reqs'[w].session = [open |-> TRUE, pending |-> <<>>]

C10_SessionPerRequest == []C10_SessionState /\ [][C10_FailedStep]_vars

\* one request has ended on a commit that failed, its changes still
\* pending when the handler raised, and another on an HTTP error
C10_Witness ==
    \E w, v \in Workers :
        /\ reqs[w].pc = "done" /\ reqs[w].resp.exc = "IntegrityError"
        /\ reqs[v].pc = "done" /\ reqs[v].resp.exc = "HTTPException"

\* a request has ended on a normal return
C10_WitnessReturn ==
    \E w \in Workers : reqs[w].pc = "done" /\ reqs[w].resp.code = 201

-----------------------------------------------------------------------------
(* Properties of the stored rows (Spec) *)

Columns == {"id", "name", "race", "status", "birth_date", "created_at"}

\* C11. Field validity: after any sequence of create and update requests,
\* those whose body sets a field to null included, every row has a value in
\* every column, a name of 1 to 200 characters, a race that is a value of
\* Race, a status in {0, 1} and a birth_date from 1000 to the current year.
C11_FieldsValid ==
    \A a \in animals :
        /\ DOMAIN a = Columns
        /\ Len(a.name) >= 1 /\ Len(a.name) <= 200
        /\ a.race \in {Race[i].value : i \in DOMAIN Race}
        /\ a.status \in {0, 1}
        /\ a.birth_date >= 1000 /\ a.birth_date <= CurrentYear

\* an update whose body sets a field to null, with another field it changes,
\* was sent for a stored row and answered 500, the table left as it was
C11_Witness ==
    /\ last.op = "update" /\ Code = 500
    /\ last.arg.id \in Ids(before.animals)
    /\ "birth_date" \in DOMAIN last.arg.data /\ last.arg.data.birth_date # None
    /\ \E f \in DOMAIN last.arg.data : last.arg.data[f] = None
    /\ animals = before.animals

\* C12. A create answered 201 adds exactly one row, with the name, race,
\* status and birth_date of the body, an id that no row of the table had
\* when the request arrived and the created_at of the creation, and leaves
\* every other row as it was; in every state no two rows have the same id.
C12_CreateAddsOne ==
    /\ ( last.op = "create" /\ Code = 201 )
       => \E new \in animals :
             /\ new.id \notin Ids(before.animals)
             /\ animals = before.animals \cup {new}
             /\ Cardinality(animals) = Cardinality(before.animals) + 1
             /\ new.name = last.arg.body.name
             /\ new.race = last.arg.body.race
             /\ new.status = last.arg.body.status
             /\ new.birth_date = last.arg.body.birth_date
             /\ new.created_at = last.arg.now
             /\ Out = {new}
    /\ \A a, b \in animals : a.id = b.id => a = b

\* a create was answered 201 after a seeded row had been deleted, so the
\* table holds fewer rows than its largest id
C12_Witness ==
    /\ last.op = "create" /\ Code = 201
    /\ \E a \in animals : a.id = 7
    /\ 1 \notin Ids(animals)

====
